---- MODULE Spec2Model ----
(***************************************************************************)
(* Model of gitea-branch-activity: branch_activity_report.py (token        *)
(* authentication) and gitea_branch_activity.py (basic authentication).    *)
(* The two files share the Gitea client, the result mapper, the Commit /   *)
(* Branch / Repository classes and main(); they differ in how credentials  *)
(* are passed, in whether --days is optional, and in where main() reports  *)
(* a caught exception (logging.error vs print).                            *)
(*                                                                         *)
(* Python str values are sequences of one-character strings.  A value that *)
(* may be None (dict.get on a missing key) is a sequence of length 0 or 1. *)
(***************************************************************************)
EXTENDS Integers, Sequences, FiniteSets, TLC

----------------------------------------------------------------------------
(* Optional values and strings                                             *)

None == <<>>
Some(x) == <<x>>
IsNone(o) == Len(o) = 0
Val(o) == o[1]

Min(a, b) == IF a < b THEN a ELSE b
Max(a, b) == IF a > b THEN a ELSE b

\* s[:k] for k >= 0
Take(s, k) == SubSeq(s, 1, Min(k, Len(s)))

\* s[:-k] for k > 0
DropLast(s, k) == SubSeq(s, 1, Max(Len(s) - k, 0))

Digits == <<"0", "1", "2", "3", "4", "5", "6", "7", "8", "9">>
DigitSet == {Digits[i] : i \in 1..10}
DigitVal(c) == CHOOSE v \in 0..9 : Digits[v + 1] = c

Pad2(n) == <<Digits[((n \div 10) % 10) + 1], Digits[(n % 10) + 1]>>
Pad4(n) ==
    <<Digits[((n \div 1000) % 10) + 1], Digits[((n \div 100) % 10) + 1]>> \o Pad2(n % 100)

----------------------------------------------------------------------------
(* datetime / timedelta arithmetic (CPython datetime semantics)            *)

SecondsPerDay == 86400
MicrosPerSecond == 1000000

IsLeap(y) == y % 4 = 0 /\ (y % 100 # 0 \/ y % 400 = 0)

DaysInMonth(y, m) ==
    IF m = 2 THEN (IF IsLeap(y) THEN 29 ELSE 28)
    ELSE IF m \in {4, 6, 9, 11} THEN 30 ELSE 31

\* _days_before_month: a table for a common year, a day more after a
\* leap year's February
DaysBeforeMonthTable == <<0, 31, 59, 90, 120, 151, 181, 212, 243, 273, 304, 334>>
DaysBeforeMonth(y, m) ==
    DaysBeforeMonthTable[m] + (IF m > 2 /\ IsLeap(y) THEN 1 ELSE 0)

DaysBeforeYear(y) ==
    LET p == y - 1 IN (p * 365) + (p \div 4) - (p \div 100) + (p \div 400)

\* date.toordinal(): 0001-01-01 is day 1
ToOrdinal(y, m, d) == DaysBeforeYear(y) + DaysBeforeMonth(y, m) + d

\* A datetime keeps its calendar fields.
Datetime(y, mo, d, h, mi, s, us) ==
    [year |-> y, month |-> mo, day |-> d, hour |-> h, minute |-> mi,
     second |-> s, microsecond |-> us]

DtOrdinal(dt) == ToOrdinal(dt.year, dt.month, dt.day)
DtSeconds(dt) == (dt.hour * 3600) + (dt.minute * 60) + dt.second

\* timedelta(days, seconds, microseconds), normalised as CPython does:
\* 0 <= microseconds < 10^6, 0 <= seconds < 86400, days carries the sign.
Timedelta(days, seconds, micros) ==
    LET s1 == seconds + (micros \div MicrosPerSecond)
    IN [days |-> days + (s1 \div SecondsPerDay),
        seconds |-> s1 % SecondsPerDay,
        microseconds |-> micros % MicrosPerSecond]

\* timedelta.__lt__: lexicographic on (days, seconds, microseconds)
TdLess(a, b) ==
    \/ a.days < b.days
    \/ a.days = b.days /\ a.seconds < b.seconds
    \/ a.days = b.days /\ a.seconds = b.seconds /\ a.microseconds < b.microseconds

\* datetime.__sub__(datetime)
DtSub(a, b) ==
    Timedelta(DtOrdinal(a) - DtOrdinal(b), DtSeconds(a) - DtSeconds(b),
              a.microsecond - b.microsecond)

\* datetime.__lt__: lexicographic on the fields
DtLess(a, b) ==
    LET d == DtSub(a, b) IN d.days < 0

----------------------------------------------------------------------------
(* datetime.strptime(s, "%Y-%m-%dT%H:%M:%S") and strftime                  *)
(* _strptime turns the format into a regular expression, one group per     *)
(* directive, and matches it at the start of the string (re.IGNORECASE);   *)
(* an alternation tries its alternatives in the order written.  A group    *)
(* is a sequence of alternatives, an alternative a sequence of character   *)
(* classes.                                                                *)

D01 == {"0", "1"}
D03 == {"0", "1", "2", "3"}
D02 == {"0", "1", "2"}
D05 == {"0", "1", "2", "3", "4", "5"}
D12 == {"1", "2"}
D19 == DigitSet \ {"0"}

ReYear == << <<DigitSet, DigitSet, DigitSet, DigitSet>> >>
ReMonth == << <<{"1"}, D02>>, <<{"0"}, D19>>, <<D19>> >>
ReDay == << <<{"3"}, D01>>, <<D12, DigitSet>>, <<{"0"}, D19>>, <<D19>>, <<{" "}, D19>> >>
ReHour == << <<{"2"}, D03>>, <<D01, DigitSet>>, <<DigitSet>> >>
ReMinute == << <<D05, DigitSet>>, <<DigitSet>> >>
ReSecond == << <<{"6"}, D01>>, <<D05, DigitSet>>, <<DigitSet>> >>
ReLit(c) == << <<{c}>> >>

\* "%Y-%m-%dT%H:%M:%S"; the literal T also matches t (IGNORECASE)
TimestampFormat ==
    <<ReYear, ReLit("-"), ReMonth, ReLit("-"), ReDay, << <<{"T", "t"}>> >>,
      ReHour, ReLit(":"), ReMinute, ReLit(":"), ReSecond>>

AltMatches(alt, s, p) ==
    /\ p + Len(alt) - 1 <= Len(s)
    /\ \A i \in 1..Len(alt) : s[p + i - 1] \in alt[i]

\* Backtracking match of groups k.. of re against s from position p:
\* None, or Some of the sequence of matched substrings followed by the end
\* position.
RECURSIVE ReMatch(_, _, _, _)
RECURSIVE ReTryAlts(_, _, _, _, _)
ReMatch(re, k, s, p) ==
    IF k > Len(re) THEN Some(<<p>>) ELSE ReTryAlts(re, k, s, p, 1)

ReTryAlts(re, k, s, p, a) ==
    IF a > Len(re[k]) THEN None
    ELSE IF ~AltMatches(re[k][a], s, p) THEN ReTryAlts(re, k, s, p, a + 1)
    ELSE LET n == Len(re[k][a])
             rest == ReMatch(re, k + 1, s, p + n)
         IN IF IsNone(rest) THEN ReTryAlts(re, k, s, p, a + 1)
            ELSE Some(<<SubSeq(s, p, p + n - 1)>> \o Val(rest))

\* int(text) of a matched group: digits, possibly after a blank
RECURSIVE ParseInt(_)
ParseInt(t) ==
    IF Len(t) = 0 THEN 0
    ELSE IF t[Len(t)] = " " THEN ParseInt(SubSeq(t, 1, Len(t) - 1))
    ELSE ParseInt(SubSeq(t, 1, Len(t) - 1)) * 10 + DigitVal(t[Len(t)])

\* None stands for ValueError: no match, unconverted data remains, or a
\* field out of range for datetime().
Strptime(s) ==
    LET m == ReMatch(TimestampFormat, 1, s, 1)
    IN IF IsNone(m) THEN None
       ELSE LET g == Val(m)
                y == ParseInt(g[1])
                mo == ParseInt(g[3])
                d == ParseInt(g[5])
                h == ParseInt(g[7])
                mi == ParseInt(g[9])
                sec == ParseInt(g[11])
            IN IF g[12] # Len(s) + 1 THEN None
               ELSE IF y < 1 \/ d > DaysInMonth(y, mo) \/ sec > 59 THEN None
               ELSE Some(Datetime(y, mo, d, h, mi, sec, 0))

\* strftime("%d-%m-%Y %H:%m"): the last directive is the month, not the minute
Strftime(dt) ==
    Pad2(dt.day) \o <<"-">> \o Pad2(dt.month) \o <<"-">> \o Pad4(dt.year)
        \o <<" ">> \o Pad2(dt.hour) \o <<":">> \o Pad2(dt.month)


----------------------------------------------------------------------------
(* Results of calls that may raise: exc is "" or the exception's name.     *)

Ok(v) == [exc |-> "", val |-> <<v>>]
Raise(e) == [exc |-> e, val |-> <<>>]
Raised(r) == r.exc # ""

----------------------------------------------------------------------------
(* Commit and Branch                                                       *)

MessageLimit == 90
OffsetWidth == 6

\* Mutant of CommitInit: message[:91]
CommitInitOffByOne(url, author, message, timestamp) ==
    IF IsNone(message) THEN Raise("TypeError")
    ELSE Ok([url |-> url, author |-> author,
             message |-> Take(Val(message), MessageLimit + 1),
             timestamp |-> timestamp])

\* Commit.__init__: message[:90] raises TypeError when message is None
CommitInit(url, author, message, timestamp) ==
    IF IsNone(message) THEN Raise("TypeError")
    ELSE Ok([url |-> url, author |-> author,
             message |-> Take(Val(message), MessageLimit),
             timestamp |-> timestamp])

\* Commit.get_dict
CommitGetDict(commit) ==
    [author |-> commit.author, message |-> commit.message,
     timestamp |-> Strftime(commit.timestamp), url |-> commit.url]

\* Branch.__init__
BranchInit(name, last_commit) == [name |-> name, last_commit |-> last_commit]

\* Mutant of BranchGetDict: the subtraction the other way round
BranchGetDictSwapped(branch, today) ==
    LET time_since_last_commit == DtSub(branch.last_commit.timestamp, today)
        d == CommitGetDict(branch.last_commit)
    IN [name |-> branch.name,
        days_since_last_commit |-> time_since_last_commit.days,
        author |-> d.author, message |-> d.message,
        timestamp |-> d.timestamp, url |-> d.url]

\* Branch.get_dict, with today the value datetime.today() returns in it
BranchGetDict(branch, today) ==
    LET time_since_last_commit == DtSub(today, branch.last_commit.timestamp)
        d == CommitGetDict(branch.last_commit)
    IN [name |-> branch.name,
        days_since_last_commit |-> time_since_last_commit.days,
        author |-> d.author, message |-> d.message,
        timestamp |-> d.timestamp, url |-> d.url]

\* Mutant of IsActive: <= in place of <
IsActiveOrEqual(branch, time_inactive, today) ==
    LET age == DtSub(today, branch.last_commit.timestamp)
    IN TdLess(age, time_inactive) \/ age = time_inactive

\* Branch.is_active, with today the value datetime.today() returns in it
IsActive(branch, time_inactive, today) ==
    TdLess(DtSub(today, branch.last_commit.timestamp), time_inactive)

----------------------------------------------------------------------------
(* Gitea: the result mapper                                                *)

\* Gitea.parse_commit_result: commit is branch.get("commit")
ParseCommitResult(commit) ==
    IF IsNone(commit) THEN Raise("AttributeError")
    ELSE LET c == Val(commit) IN
         IF IsNone(c.author) THEN Raise("AttributeError")
         ELSE IF IsNone(c.timestamp) THEN Raise("TypeError")
         ELSE LET ts == Strptime(DropLast(Val(c.timestamp), OffsetWidth)) IN
              IF IsNone(ts) THEN Raise("ValueError")
              ELSE CommitInit(c.url, Val(c.author).name, c.message, Val(ts))

\* Gitea.parse_branch_result
ParseBranchResult(branch) ==
    LET name == branch.name
        last_commit == ParseCommitResult(branch.commit)
    IN IF Raised(last_commit) THEN last_commit
       ELSE Ok(BranchInit(name, Val(last_commit.val)))

\* Gitea.parse_repository_results: the first exception ends the loop
RECURSIVE ParseFrom(_, _, _)
ParseFrom(results, i, acc) ==
    IF i > Len(results) THEN Ok(acc)
    ELSE LET b == ParseBranchResult(results[i])
         IN IF Raised(b) THEN b
            ELSE ParseFrom(results, i + 1, Append(acc, Val(b.val)))

ParseRepositoryResults(results) == ParseFrom(results, 1, <<>>)

\* Mutant of AcceptedStatus: every 2xx status code counts as success
AcceptedAny2xx(status_code) == status_code \in (200..299) \cup {2001}

\* Gitea.get_branches: the status codes it accepts
AcceptedStatus(status_code) == status_code \in {200, 2001}

----------------------------------------------------------------------------
(* Repository                                                              *)

\* Mutant of InactiveFrom: the comprehension without its "not"
RECURSIVE ActiveFrom(_, _, _, _)
ActiveFrom(branches, time_inactive, todays, i) ==
    IF i > Len(branches) THEN <<>>
    ELSE (IF IsActive(branches[i], time_inactive, todays[i])
          THEN <<branches[i]>> ELSE <<>>)
         \o ActiveFrom(branches, time_inactive, todays, i + 1)

\* Repository.get_inactive_branches; todays[i] is what datetime.today()
\* returns in the is_active call on the i-th branch
RECURSIVE InactiveFrom(_, _, _, _)
InactiveFrom(branches, time_inactive, todays, i) ==
    IF i > Len(branches) THEN <<>>
    ELSE (IF ~IsActive(branches[i], time_inactive, todays[i])
          THEN <<branches[i]>> ELSE <<>>)
         \o InactiveFrom(branches, time_inactive, todays, i + 1)

GetInactiveBranches(branches, time_inactive, todays) ==
    InactiveFrom(branches, time_inactive, todays, 1)

\* self._branches after get_inactive_branches: the list comprehension
\* builds a new list
BranchesAfterFilter(branches, time_inactive) == branches

\* Mutant of InsertIdx: an index goes before the indices of equal key
RECURSIVE InsertIdxUnstable(_, _, _)
InsertIdxUnstable(order, branches, j) ==
    IF Len(order) = 0 THEN <<j>>
    ELSE IF ~DtLess(branches[order[Len(order)]].last_commit.timestamp,
                    branches[j].last_commit.timestamp)
         THEN Append(InsertIdxUnstable(SubSeq(order, 1, Len(order) - 1), branches, j),
                     order[Len(order)])
         ELSE Append(order, j)

\* sorted(..., key=timestamp) as the order of indices it produces: a stable
\* insertion sort; an index goes after every index whose key is not greater
RECURSIVE InsertIdx(_, _, _)
InsertIdx(order, branches, j) ==
    IF Len(order) = 0 THEN <<j>>
    ELSE IF DtLess(branches[j].last_commit.timestamp,
                   branches[order[Len(order)]].last_commit.timestamp)
         THEN Append(InsertIdx(SubSeq(order, 1, Len(order) - 1), branches, j),
                     order[Len(order)])
         ELSE Append(order, j)

RECURSIVE SortedIdx(_, _)
SortedIdx(branches, n) ==
    IF n = 0 THEN <<>> ELSE InsertIdx(SortedIdx(branches, n - 1), branches, n)

\* Mutant of BranchesAfterDisplay: self._branches.sort(key=...) in place
BranchesSortedInPlace(branches, sort_by_datetime) ==
    IF sort_by_datetime
    THEN [i \in 1..Len(branches) |-> branches[SortedIdx(branches, Len(branches))[i]]]
    ELSE branches

\* self._branches after display_tabulate: sorted() builds a new list and
\* leaves the one it is given as it was
BranchesAfterDisplay(branches, sort_by_datetime) == branches

\* Repository.display_tabulate; todays[i] is what datetime.today() returns
\* in the get_dict call for the i-th row.  The headers come from
\* sorted_branches[0], an IndexError on an empty list; tabulate formats
\* whatever values the rows hold.  order names, for each row, the position
\* in self._branches of the branch it shows.
DisplayTabulate(branches, sort_by_datetime, todays) ==
    LET order == IF sort_by_datetime THEN SortedIdx(branches, Len(branches))
                 ELSE [i \in 1..Len(branches) |-> i]
        data == [i \in 1..Len(order) |-> BranchGetDict(branches[order[i]], todays[i])]
    IN IF Len(order) = 0 THEN Raise("IndexError")
       ELSE Ok([kind |-> "table", sorted |-> sort_by_datetime, order |-> order,
                rows |-> data])


----------------------------------------------------------------------------
(* Inputs: what the server may return, the command line, the wall clock    *)

MaxBranches == 3

\* "YYYY-MM-DDTHH:MM:SS" followed by a UTC offset such as "+00:00"
IsoText(y, mo, d, h, mi, sec, offset) ==
    Pad4(y) \o <<"-">> \o Pad2(mo) \o <<"-">> \o Pad2(d) \o <<"T">>
        \o Pad2(h) \o <<":">> \o Pad2(mi) \o <<":">> \o Pad2(sec) \o offset

Utc == <<"+", "0", "0", ":", "0", "0">>
Cest == <<"+", "0", "2", ":", "0", "0">>

\* a message of n characters, no two neighbours alike
MessageOfLen(n) == [i \in 1..n |-> Digits[(i % 10) + 1]]

RawCommit(author, message, timestamp, url) ==
    [author |-> author, message |-> message, timestamp |-> timestamp, url |-> url]
RawBranch(name, commit) == [name |-> name, commit |-> commit]
Author(name) == Some([name |-> Some(name)])

\* Last commits 2, 40 and 100 days before 2023-06-22T10:15:30
Raw2d ==
    RawBranch(Some(<<"a">>), Some(RawCommit(Author(<<"x">>), Some(MessageOfLen(5)),
        Some(IsoText(2023, 6, 20, 10, 15, 30, Cest)), Some(<<"u", "1">>))))
Raw40d ==
    RawBranch(Some(<<"c">>), Some(RawCommit(Author(<<"x">>), Some(MessageOfLen(200)),
        Some(IsoText(2023, 5, 13, 10, 15, 30, Utc)), Some(<<"u", "3">>))))
Raw100d ==
    RawBranch(Some(<<"d">>), Some(RawCommit(Author(<<"y">>), Some(MessageOfLen(90)),
        Some(IsoText(2023, 3, 14, 10, 15, 30, Utc)), Some(<<"u", "4">>))))

RegularRecords == {Raw2d, Raw40d, Raw100d}

\* Records that lack a key, or whose timestamp is not of the usual shape;
\* the last commit of RawNoAuthorName is 30 days before 2023-06-22T10:15:30
RawNoName ==
    RawBranch(None, Some(RawCommit(Author(<<"x">>), Some(MessageOfLen(91)),
        Some(IsoText(2023, 5, 13, 10, 15, 30, Utc)), Some(<<"u", "5">>))))
RawNoCommit == RawBranch(Some(<<"e">>), None)
RawNoAuthor ==
    RawBranch(Some(<<"f">>), Some(RawCommit(None, Some(MessageOfLen(3)),
        Some(IsoText(2023, 5, 13, 10, 15, 30, Utc)), Some(<<"u", "6">>))))
RawNoAuthorName ==
    RawBranch(Some(<<"g">>), Some(RawCommit(Some([name |-> None]), Some(<<>>),
        Some(IsoText(2023, 5, 23, 10, 15, 30, Utc)), None)))
RawNoMessage ==
    RawBranch(Some(<<"h">>), Some(RawCommit(Author(<<"x">>), None,
        Some(IsoText(2023, 5, 13, 10, 15, 30, Utc)), Some(<<"u", "7">>))))
RawNoTimestamp ==
    RawBranch(Some(<<"i">>), Some(RawCommit(Author(<<"x">>), Some(MessageOfLen(3)),
        None, Some(<<"u", "8">>))))
\* "2023-05-13T10:15:30Z": 14 characters are left once 6 are stripped
RawZulu ==
    RawBranch(Some(<<"j">>), Some(RawCommit(Author(<<"x">>), Some(MessageOfLen(3)),
        Some(IsoText(2023, 5, 13, 10, 15, 30, <<"Z">>)), Some(<<"u", "9">>))))
\* "2023-3-4T1:2:3+00:00": 14 characters are left once 6 are stripped
RawUnpadded ==
    RawBranch(Some(<<"k">>), Some(RawCommit(Author(<<"y">>), Some(MessageOfLen(3)),
        Some(<<"2", "0", "2", "3", "-", "3", "-", "4", "T", "1", ":", "2", ":", "3">> \o Utc),
        Some(<<"u", "0">>))))

IrregularRecords ==
    {RawNoName, RawNoCommit, RawNoAuthor, RawNoAuthorName, RawNoMessage,
     RawNoTimestamp, RawZulu, RawUnpadded}

RawRecords == RegularRecords \cup IrregularRecords

\* A decoded response body: at most MaxBranches records, at most one of
\* them irregular
Bodies ==
    {b \in UNION {[1..n -> RawRecords] : n \in 0..MaxBranches} :
        Cardinality({i \in DOMAIN b : b[i] \in IrregularRecords}) <= 1}

\* What requests.get may come back with: a transport failure, or a response
\* with a status code and a text that json.loads accepts or not
Statuses == {200, 2001, 201, 404}
Responses ==
    {[kind |-> "transport", status |-> 0, valid |-> FALSE, body |-> <<>>]}
    \cup {[kind |-> "http", status |-> st, valid |-> FALSE, body |-> <<>>] : st \in Statuses}
    \cup {[kind |-> "http", status |-> st, valid |-> TRUE, body |-> b] :
            st \in Statuses, b \in Bodies}

\* args.days: --days is optional in branch_activity_report.py (None when
\* left out) and a required positional in gitea_branch_activity.py
DaysChoices(v) == IF v = "token" THEN {None, Some(30)} ELSE {Some(30)}

\* The wall clock k microseconds after 2023-06-22T10:15:30.000000
ClockAt(k) ==
    IF k >= 0 THEN Datetime(2023, 6, 22, 10, 15, 30, k)
    ELSE Datetime(2023, 6, 22, 10, 15, 29, 1000000 + k)

\* The clock's movement before each of n calls of datetime.today(): it
\* stands still, or steps one microsecond forward or back, and moves at
\* most once in the course of one call of a Repository method
ClockSteps == {-1, 0, 1}
ClockTraces(n) ==
    {[j \in 1..n |-> 0]}
    \cup {[j \in 1..n |-> IF j = i THEN d ELSE 0] : i \in 1..n, d \in ClockSteps \ {0}}

RECURSIVE SumTo(_, _)
SumTo(t, i) == IF i = 0 THEN 0 ELSE SumTo(t, i - 1) + t[i]

Todays(c, t) == [i \in 1..Len(t) |-> ClockAt(c + SumTo(t, i))]
WentBack(t) == \E i \in 1..Len(t) : t[i] < 0


----------------------------------------------------------------------------
(* State                                                                   *)

VARIABLES
    variant,        \* "token": branch_activity_report.py, "basic": gitea_branch_activity.py
    pc,             \* where main() stands
    args,           \* [days]: the parsed command line
    requests,       \* HTTP requests issued so far
    status_code,    \* None, or Some(status code of the response)
    decoded,        \* json.loads has been called
    results,        \* main's results: None, or Some(decoded body)
    branches,       \* main's branches: None, or Some(list of Branch)
    repo,           \* repo._branches: None, or Some(list of Branch)
    inactive_repo,  \* inactive_repo._branches: None, or Some(list of Branch)
    checks,         \* the is_active calls of the last get_inactive_branches
    clock,          \* the wall clock, microseconds from 2023-06-22T10:15:30
    wentBack,       \* the clock has stepped back between two readings
    exc,            \* None, or Some(name of the exception raised)
    stdout,         \* what has been printed
    stderr          \* what has been logged

vars ==
    <<variant, pc, args, requests, status_code, decoded, results, branches, repo,
      inactive_repo, checks, clock, wentBack, exc, stdout, stderr>>

\* The is_active calls get_inactive_branches makes, one per branch
CheckLog(bs, time_inactive, todays) ==
    [i \in 1..Len(bs) |->
        [branch |-> bs[i], today |-> todays[i], time_inactive |-> time_inactive,
         active |-> IsActive(bs[i], time_inactive, todays[i])]]

\* The line main's handler writes for a caught exception
ExceptionLine(e) ==
    [kind |-> "exception", sorted |-> FALSE, order |-> <<>>, rows |-> <<e>>]

----------------------------------------------------------------------------
(* main()                                                                  *)

Init ==
    /\ variant \in {"token", "basic"}
    /\ pc = "start"
    /\ args = [days |-> None]
    /\ requests = 0
    /\ status_code = None
    /\ decoded = FALSE
    /\ results = None
    /\ branches = None
    /\ repo = None
    /\ inactive_repo = None
    /\ checks = <<>>
    /\ clock = 0
    /\ wentBack = FALSE
    /\ exc = None
    /\ stdout = <<>>
    /\ stderr = <<>>

\* process_arguments: argparse ends the process with SystemExit on a bad
\* command line; SystemExit is not an Exception and main does not catch it
ProcessArguments ==
    /\ pc = "start"
    /\ \/ /\ pc' = "exit"
          /\ UNCHANGED args
       \/ \E d \in DaysChoices(variant) :
            /\ args' = [days |-> d]
            /\ pc' = "request"
    /\ UNCHANGED <<variant, requests, status_code, decoded, results, branches, repo,
                   inactive_repo, checks, clock, wentBack, exc, stdout, stderr>>

\* Gitea(...) and gitea.get_branches(): one GET, the status check, json.loads
GetBranches ==
    /\ pc = "request"
    /\ requests' = requests + 1
    /\ \E resp \in Responses :
         IF resp.kind = "transport"
         THEN /\ exc' = Some("ConnectionError")
              /\ pc' = "except"
              /\ UNCHANGED <<status_code, decoded, results>>
         ELSE IF ~AcceptedStatus(resp.status)
         THEN /\ status_code' = Some(resp.status)
              /\ exc' = Some("Exception")
              /\ pc' = "except"
              /\ UNCHANGED <<decoded, results>>
         ELSE IF ~resp.valid
         THEN /\ status_code' = Some(resp.status)
              /\ decoded' = TRUE
              /\ exc' = Some("JSONDecodeError")
              /\ pc' = "except"
              /\ UNCHANGED results
         ELSE /\ status_code' = Some(resp.status)
              /\ decoded' = TRUE
              /\ results' = Some(resp.body)
              /\ pc' = "parse"
              /\ UNCHANGED exc
    /\ UNCHANGED <<variant, args, branches, repo, inactive_repo, checks, clock,
                   wentBack, stdout, stderr>>

\* branches = gitea.parse_repository_results(results=results)
ParseResults ==
    /\ pc = "parse"
    /\ LET r == ParseRepositoryResults(Val(results))
       IN IF Raised(r)
          THEN /\ exc' = Some(r.exc)
               /\ pc' = "except"
               /\ UNCHANGED branches
          ELSE /\ branches' = Some(Val(r.val))
               /\ pc' = "filter"
               /\ UNCHANGED exc
    /\ UNCHANGED <<variant, args, requests, status_code, decoded, results, repo,
                   inactive_repo, checks, clock, wentBack, stdout, stderr>>

\* repo = Repository(...); inactive_repo = Repository(...,
\* branches=repo.get_inactive_branches(timedelta(days=inactive_days)));
\* timedelta(days=None) raises TypeError
FilterInactive ==
    /\ pc = "filter"
    /\ IF IsNone(args.days)
       THEN /\ repo' = branches
            /\ exc' = Some("TypeError")
            /\ pc' = "except"
            /\ UNCHANGED <<inactive_repo, checks, clock, wentBack>>
       ELSE \E t \in ClockTraces(Len(Val(branches))) :
              LET time_inactive == Timedelta(Val(args.days), 0, 0)
                  todays == Todays(clock, t)
              IN /\ inactive_repo' =
                        Some(GetInactiveBranches(Val(branches), time_inactive, todays))
                 /\ repo' = Some(BranchesAfterFilter(Val(branches), time_inactive))
                 /\ checks' = CheckLog(Val(branches), time_inactive, todays)
                 /\ clock' = clock + SumTo(t, Len(t))
                 /\ wentBack' = (wentBack \/ WentBack(t))
                 /\ pc' = "display"
                 /\ UNCHANGED exc
    /\ UNCHANGED <<variant, args, requests, status_code, decoded, results, branches,
                   stdout, stderr>>

\* The calls of datetime.today() display_tabulate makes on n branches: one
\* per row and one more for the headers; none when the list is empty
DisplaySamples(n) == IF n = 0 THEN 0 ELSE n + 1

\* inactive_repo.display_tabulate(sort_by_datetime=True)
Display ==
    /\ pc = "display"
    /\ \E t \in ClockTraces(DisplaySamples(Len(Val(inactive_repo)))) :
         LET r == DisplayTabulate(Val(inactive_repo), TRUE, Todays(clock, t))
         IN /\ clock' = clock + SumTo(t, Len(t))
            /\ wentBack' = (wentBack \/ WentBack(t))
            /\ inactive_repo' = Some(BranchesAfterDisplay(Val(inactive_repo), TRUE))
            /\ IF Raised(r)
               THEN /\ exc' = Some(r.exc)
                    /\ pc' = "except"
                    /\ UNCHANGED stdout
               ELSE /\ stdout' = Append(stdout, Val(r.val))
                    /\ pc' = "done"
                    /\ UNCHANGED exc
    /\ UNCHANGED <<variant, args, requests, status_code, decoded, results, branches,
                   repo, checks, stderr>>

\* Mutant of HandleException: the handler tries the request again
HandleExceptionRetry ==
    /\ pc = "except"
    /\ pc' = "request"
    /\ exc' = None
    /\ UNCHANGED <<variant, args, requests, status_code, decoded, results, branches,
                   repo, inactive_repo, checks, clock, wentBack, stdout, stderr>>

\* except Exception as exc: logging.error(...) in branch_activity_report.py,
\* print("Exception", exc) in gitea_branch_activity.py; then main returns
HandleException ==
    /\ pc = "except"
    /\ IF variant = "token"
       THEN /\ stderr' = Append(stderr, ExceptionLine(Val(exc)))
            /\ UNCHANGED stdout
       ELSE /\ stdout' = Append(stdout, ExceptionLine(Val(exc)))
            /\ UNCHANGED stderr
    /\ pc' = "failed"
    /\ UNCHANGED <<variant, args, requests, status_code, decoded, results, branches,
                   repo, inactive_repo, checks, clock, wentBack, exc>>

Next ==
    \/ ProcessArguments
    \/ GetBranches
    \/ ParseResults
    \/ FilterInactive
    \/ Display
    \/ HandleException

Spec == Init /\ [][Next]_vars


----------------------------------------------------------------------------
(* The Repository class used as a library: a caller constructs a           *)
(* Repository and makes two calls of its methods, any two in any order.    *)

\* Branch objects with last commits 30, 40 and again 40 days before
\* 2023-06-22T10:15:30
ApiBranch(name, timestamp) ==
    BranchInit(Some(name),
               Val(CommitInit(Some(<<"u">>), Some(<<"x">>), Some(<<"m">>), timestamp).val))

ApiBranches ==
    {ApiBranch(<<"b">>, Datetime(2023, 5, 23, 10, 15, 30, 0)),
     ApiBranch(<<"c">>, Datetime(2023, 5, 13, 10, 15, 30, 0)),
     ApiBranch(<<"d">>, Datetime(2023, 5, 13, 10, 15, 30, 0))}

ApiRepositories ==
    UNION {[1..n -> ApiBranches] : n \in 0..MaxBranches}

\* time_inactive values: 30 days, and 40 days and a microsecond
Thresholds == {Timedelta(30, 0, 0), Timedelta(40, 0, 1)}

AfterCall(p) == IF p = "first call" THEN "second call" ELSE "returned"

InitApi ==
    /\ variant = "library"
    /\ pc = "first call"
    /\ args = [days |-> None]
    /\ requests = 0
    /\ status_code = None
    /\ decoded = FALSE
    /\ results = None
    /\ branches = None
    /\ repo \in {Some(bs) : bs \in ApiRepositories}
    /\ inactive_repo = None
    /\ checks = <<>>
    /\ clock = 0
    /\ wentBack = FALSE
    /\ exc = None
    /\ stdout = <<>>
    /\ stderr = <<>>

\* repo.get_inactive_branches(time_inactive); inactive_repo holds the list
\* it returns
CallGetInactiveBranches ==
    /\ pc \in {"first call", "second call"}
    /\ pc' = AfterCall(pc)
    /\ \E time_inactive \in Thresholds, t \in ClockTraces(Len(Val(repo))) :
         LET todays == Todays(clock, t)
         IN /\ inactive_repo' =
                   Some(GetInactiveBranches(Val(repo), time_inactive, todays))
            /\ checks' = CheckLog(Val(repo), time_inactive, todays)
            /\ repo' = Some(BranchesAfterFilter(Val(repo), time_inactive))
            /\ clock' = clock + SumTo(t, Len(t))
            /\ wentBack' = (wentBack \/ WentBack(t))
    /\ exc' = None
    /\ UNCHANGED <<variant, args, requests, status_code, decoded, results,
                   branches, stdout, stderr>>

\* repo.display_tabulate(sort_by_datetime); an exception reaches the caller
CallDisplayTabulate ==
    /\ pc \in {"first call", "second call"}
    /\ pc' = AfterCall(pc)
    /\ \E sort_by_datetime \in BOOLEAN,
          t \in ClockTraces(DisplaySamples(Len(Val(repo)))) :
         LET r == DisplayTabulate(Val(repo), sort_by_datetime, Todays(clock, t))
         IN /\ clock' = clock + SumTo(t, Len(t))
            /\ wentBack' = (wentBack \/ WentBack(t))
            /\ repo' = Some(BranchesAfterDisplay(Val(repo), sort_by_datetime))
            /\ IF Raised(r)
               THEN /\ exc' = Some(r.exc)
                    /\ UNCHANGED stdout
               ELSE /\ stdout' = Append(stdout, Val(r.val))
                    /\ exc' = None
    /\ UNCHANGED <<variant, args, requests, status_code, decoded, results,
                   branches, inactive_repo, checks, stderr>>

NextApi ==
    \/ CallGetInactiveBranches
    \/ CallDisplayTabulate

SpecApi == InitApi /\ [][NextApi]_vars


----------------------------------------------------------------------------
(* Vocabulary of the properties                                            *)

Range(f) == {f[i] : i \in DOMAIN f}
Tables == {stdout[i] : i \in {j \in DOMAIN stdout : stdout[j].kind = "table"}}
ExceptionLines(out) == {i \in DOMAIN out : out[i].kind = "exception"}
Timestamp(b) == b.last_commit.timestamp

\* today - ts >= T, in whole seconds and a remainder of microseconds
AgeAtLeast(today, ts, T) ==
    LET secs == ((DtOrdinal(today) - DtOrdinal(ts) - T.days) * 86400)
                    + (DtSeconds(today) - DtSeconds(ts) - T.seconds)
        micros == today.microsecond - ts.microsecond - T.microseconds
    IN \/ secs > 1
       \/ secs = 1 /\ micros >= -1000000
       \/ secs = 0 /\ micros >= 0

Fields(dt) == <<dt.year, dt.month, dt.day, dt.hour, dt.minute, dt.second, dt.microsecond>>

\* a is not later than b: the first field that differs is smaller in a
NotLater(a, b) ==
    \/ Fields(a) = Fields(b)
    \/ \E k \in 1..7 :
         /\ Fields(a)[k] < Fields(b)[k]
         /\ \A j \in 1..(k - 1) : Fields(a)[j] = Fields(b)[j]

\* The branches a check log found old enough, in the log's order
RECURSIVE OldEnough(_, _)
OldEnough(log, i) ==
    IF i > Len(log) THEN <<>>
    ELSE (IF AgeAtLeast(log[i].today, Timestamp(log[i].branch), log[i].time_inactive)
          THEN <<log[i].branch>> ELSE <<>>) \o OldEnough(log, i + 1)

\* sub is a subsequence of full, in full's order
RECURSIVE IsSubsequence(_, _)
IsSubsequence(sub, full) ==
    IF Len(sub) = 0 THEN TRUE
    ELSE IF Len(full) = 0 THEN FALSE
    ELSE IF sub[1] = full[1] THEN IsSubsequence(Tail(sub), Tail(full))
    ELSE IsSubsequence(sub, Tail(full))

Count(seq, x) == Cardinality({i \in DOMAIN seq : seq[i] = x})
Identity(n) == [i \in 1..n |-> i]

\* row shows branch b
Shows(row, b) ==
    /\ row.name = b.name
    /\ row.author = b.last_commit.author
    /\ row.message = b.last_commit.message
    /\ row.url = b.last_commit.url

----------------------------------------------------------------------------
(* Properties                                                              *)

C2_OriginalNeverMutated ==
    /\ [](~IsNone(inactive_repo) => IsSubsequence(Val(inactive_repo), Val(repo)))
    /\ [][repo' = repo]_vars

\* Both calls were made: a proper, non-empty subsequence was returned and a
\* sorted table whose order differs from the repository's was printed.
C2_Witness ==
    /\ pc = "returned"
    /\ ~IsNone(inactive_repo)
    /\ Len(Val(inactive_repo)) > 0
    /\ Len(Val(inactive_repo)) < Len(Val(repo))
    /\ \E tb \in Tables : tb.sorted /\ tb.order # Identity(Len(Val(repo)))

\* C3: display_tabulate prints one row per branch; with sort_by_datetime
\* the rows are in ascending order of the last commit's timestamp and
\* branches with equal timestamps keep their relative order; without it
\* the rows are in the repository's order.
C3_DisplayOrder ==
    \A tb \in Tables :
        LET bs == Val(repo)
            o == tb.order
        IN /\ Len(o) = Len(bs)
           /\ Len(tb.rows) = Len(bs)
           /\ Range(o) = 1..Len(bs)
           /\ \A i \in DOMAIN o : Shows(tb.rows[i], bs[o[i]])
           /\ tb.sorted =>
                \A i, j \in DOMAIN o :
                    i < j =>
                        /\ NotLater(Timestamp(bs[o[i]]), Timestamp(bs[o[j]]))
                        /\ Timestamp(bs[o[i]]) = Timestamp(bs[o[j]]) => o[i] < o[j]
           /\ ~tb.sorted => o = Identity(Len(bs))

\* A sorted table was printed that moved two distinct branches of equal
\* timestamp, in their original order, ahead of a younger branch.
C3_Witness ==
    \E tb \in Tables :
        /\ tb.sorted
        /\ tb.order = <<2, 3, 1>>
        /\ Timestamp(Val(repo)[2]) = Timestamp(Val(repo)[3])
        /\ Val(repo)[2] # Val(repo)[3]


\* C4: when no branch is inactive the run ends with an informational
\* output: display_tabulate raises nothing on an empty list and main does
\* not take its exception path.
C4_EmptyResultIsNotAFailure ==
    (~IsNone(inactive_repo) /\ Val(inactive_repo) = <<>>)
        => (pc \notin {"except", "failed"} /\ IsNone(exc))

\* C5: get_branches returns the decoded body only for status code 200 or
\* 2001; for any other status code it raises before json.loads is called,
\* the run ends in failure and no table is printed.
C5_OnlyAcceptedStatusSucceeds ==
    /\ ~IsNone(results) => (~IsNone(status_code) /\ Val(status_code) \in {200, 2001})
    /\ (~IsNone(status_code) /\ Val(status_code) \notin {200, 2001}) =>
          /\ ~decoded
          /\ IsNone(results)
          /\ pc \in {"except", "failed"}
          /\ exc = Some("Exception")
          /\ Tables = {}

\* The server answered 404 and the run has ended.
C5_Witness ==
    /\ status_code = Some(404)
    /\ pc = "failed"
    /\ requests = 1
    /\ Tables = {}

\* The message of the i-th record of the decoded body
RawMessage(i) == Val(Val(Val(results)[i].commit).message)
FirstChars(text, n) == [k \in 1..(IF Len(text) < n THEN Len(text) ELSE n) |-> text[k]]

\* C6: every Commit's message has at most 90 characters: it is the first 90
\* characters of the record's message, the whole message when that has at
\* most 90 characters, and it stays what it was: the branches of repo and
\* of inactive_repo and the printed rows carry the same messages.
C6_MessageAtMost90 ==
    /\ ~IsNone(branches) =>
          \A i \in DOMAIN Val(branches) :
              LET stored == Val(branches)[i].last_commit.message
              IN /\ Len(stored) <= 90
                 /\ stored = FirstChars(RawMessage(i), 90)
                 /\ Len(RawMessage(i)) <= 90 => stored = RawMessage(i)
    /\ ~IsNone(repo) => repo = branches
    /\ ~IsNone(inactive_repo) => Range(Val(inactive_repo)) \subseteq Range(Val(branches))
    /\ \A tb \in Tables :
          \A k \in DOMAIN tb.rows :
              /\ Len(tb.rows[k].message) <= 90
              /\ tb.rows[k].message = Val(inactive_repo)[tb.order[k]].last_commit.message

\* A record with a message of 200 characters was mapped, kept through the
\* filter and printed with its first 90 characters.
C6_Witness ==
    /\ pc = "done"
    /\ \E i \in DOMAIN Val(branches) :
          /\ Len(RawMessage(i)) = 200
          /\ Len(Val(branches)[i].last_commit.message) = 90
          /\ \E tb \in Tables : \E k \in DOMAIN tb.rows :
                tb.rows[k].message = SubSeq(RawMessage(i), 1, 90)

\* What the mapper is said to need of a record
HasName(rec) == ~IsNone(rec.name)
HasCommit(rec) == ~IsNone(rec.commit)
HasAuthorName(rec) ==
    /\ ~IsNone(Val(rec.commit).author)
    /\ ~IsNone(Val(Val(rec.commit).author).name)
HasLongTimestamp(rec) ==
    /\ ~IsNone(Val(rec.commit).timestamp)
    /\ Len(Val(Val(rec.commit).timestamp)) - 6 >= 19

\* C7: mapping fails, and produces no Branch, for a record without a name,
\* without a commit object, without an author name, or whose timestamp
\* keeps fewer than 19 characters once its last 6 are stripped.
C7_MappingRejectsIncompleteRecords ==
    ~IsNone(branches) =>
        \A i \in DOMAIN Val(results) :
            LET rec == Val(results)[i]
            IN HasName(rec) /\ HasCommit(rec) /\ HasAuthorName(rec) /\ HasLongTimestamp(rec)

\* C8: a run issues at most one HTTP request; an exception is handled once,
\* by main's handler, after which the run is over; and a run that fails has
\* printed no table.
C8_OneRequestNoPartialOutput ==
    /\ requests <= 1
    /\ pc \in {"except", "failed"} <=> ~IsNone(exc)
    /\ ~IsNone(exc) => Tables = {}
    /\ pc \in {"start", "exit", "request", "parse", "filter", "display", "done", "except"} =>
          ExceptionLines(stdout) = {} /\ ExceptionLines(stderr) = {}
    /\ pc = "failed" =>
          /\ Cardinality(ExceptionLines(stdout)) + Cardinality(ExceptionLines(stderr)) = 1
          /\ ~ENABLED Next
    /\ pc = "done" => ~ENABLED Next

\* A run whose rendering failed has ended, after one request and without
\* a table.
C8_Witness ==
    /\ pc = "failed"
    /\ exc = Some("IndexError")
    /\ requests = 1
    /\ Tables = {}

\* The branches main displays, row by row
Shown(tb) == [k \in DOMAIN tb.order |-> Val(inactive_repo)[tb.order[k]]]
DaysThreshold == [days |-> Val(args.days), seconds |-> 0, microseconds |-> 0]

C10_RowsShowAtLeastThreshold ==
    (pc = "done" /\ ~wentBack) =>
        \A tb \in Tables : \A k \in DOMAIN tb.rows :
            tb.rows[k].days_since_last_commit >= Val(args.days)

\* A branch exactly 30 days old was admitted and, the clock having moved
\* on, printed with 30 days.
C10_Witness ==
    /\ pc = "done"
    /\ ~wentBack
    /\ clock > 0
    /\ \E tb \in Tables : \E k \in DOMAIN tb.rows :
          /\ tb.rows[k].days_since_last_commit = 30
          /\ Timestamp(Shown(tb)[k]) = Datetime(2023, 5, 23, 10, 15, 30, 0)


====
